---- MODULE Spec2Model ----
(***************************************************************************)
(* A model of src/services/priceService.py: the PriceService class         *)
(* (get_real_price, generate_dummy_price, get_price, get_historical_data,  *)
(* _generate_dummy_historical) and the command line main().                *)
(*                                                                         *)
(* Specifications.  Spec: single price calls on one instance.  SpecHist:   *)
(* one history call.  SpecTwin: two processes on the same draws.           *)
(* SpecConc: two threads sharing one instance.  SpecMain: one run of       *)
(* main().                                                                 *)
(*                                                                         *)
(* Numbers.  Python floats are modelled as fixed-point numbers counted in  *)
(* millionths (1.2 is 1200000).  A product or quotient that is not a whole *)
(* number of millionths is rounded to the nearest one, as a float          *)
(* operation rounds to the nearest representable value.  round(x, 5)       *)
(* yields a multiple of 10 millionths.  A value that ends in exactly 5     *)
(* millionths stands for a binary float lying just above or just below the *)
(* decimal tie, so round(x, 5) may go either way there: the direction is   *)
(* an input of the rounding (0 = down, 1 = up).                            *)
(*                                                                         *)
(* Randomness.  The random module is a deterministic generator: it is      *)
(* modelled as a cyclic tape of draws (hundredths, 0..99), fixed when the  *)
(* process starts, and a read position that every draw advances.           *)
(***************************************************************************)
EXTENDS Integers, Sequences, FiniteSets, TLC

VARIABLES
    YFINANCE_AVAILABLE, \* module flag set by the import at lines 14-19
    last_prices,        \* self.last_prices: symbol -> last generated price
    tape,               \* the outputs of the random generator, cyclic
    pos,                \* read position on the tape (number of draws so far, mod length)
    ncalls,             \* number of operations started on this instance; the clock, in minutes
    result,             \* what the last completed operation did and returned, and the
                        \* state of the service and of the generator it started from
    hist,               \* position and locals of a running _generate_dummy_historical
    twin,               \* a second process running the same service on the same draws
    threads,            \* callers sharing the instance: position and locals of each
    cli                 \* a run of main(): sys.argv, what was printed, how it ended

vars == <<YFINANCE_AVAILABLE, last_prices, tape, pos, ncalls, result, hist,
          twin, threads, cli>>

\* the parts of the state that belong to other scenarios than single calls
scenario == <<twin, threads, cli>>

-----------------------------------------------------------------------------
(* Bounds of the model *)

MaxCalls == 2
TapeLen == 2
MaxBars == 120

Draws == {0, 50, 99}

-----------------------------------------------------------------------------
(* Symbols are strings: sequences of characters *)

EURUSD == <<"E","U","R","/","U","S","D">>
GBPUSD == <<"G","B","P","/","U","S","D">>
USDJPY == <<"U","S","D","/","J","P","Y">>
AUDUSD == <<"A","U","D","/","U","S","D">>
USDCHF == <<"U","S","D","/","C","H","F">>
EURGBP == <<"E","U","R","/","G","B","P">>
EURJPY == <<"E","U","R","/","J","P","Y">>
GBPJPY == <<"G","B","P","/","J","P","Y">>
XXXYYY == <<"X","X","X","/","Y","Y","Y">>

\* the symbols the callers of the model pass: two catalog pairs and an unknown one
Symbols == {EURUSD, USDJPY, XXXYYY}

symbol_mapping ==
    [s \in {EURUSD, GBPUSD, USDJPY, AUDUSD, USDCHF, EURGBP, EURJPY, GBPJPY} |->
        CASE s = EURUSD -> "EURUSD=X"
          [] s = GBPUSD -> "GBPUSD=X"
          [] s = USDJPY -> "USDJPY=X"
          [] s = AUDUSD -> "AUDUSD=X"
          [] s = USDCHF -> "USDCHF=X"
          [] s = EURGBP -> "EURGBP=X"
          [] s = EURJPY -> "EURJPY=X"
          [] s = GBPJPY -> "GBPJPY=X"]

default_prices ==
    [s \in {EURUSD, GBPUSD, USDJPY, AUDUSD, USDCHF, EURGBP, EURJPY, GBPJPY} |->
        CASE s = EURUSD -> 1200000
          [] s = GBPUSD -> 1300000
          [] s = USDJPY -> 110000000
          [] s = AUDUSD -> 750000
          [] s = USDCHF -> 920000
          [] s = EURGBP -> 850000
          [] s = EURJPY -> 132000000
          [] s = GBPJPY -> 143000000]

\* 'JPY' in symbol
ContainsJPY(symbol) ==
    \E i \in 1..Len(symbol) :
        /\ i + 2 <= Len(symbol)
        /\ symbol[i] = "J" /\ symbol[i + 1] = "P" /\ symbol[i + 2] = "Y"

-----------------------------------------------------------------------------
(* Optional values: None is the empty sequence, a value v is <<v>> *)

None == <<>>
Some(v) == <<v>>

\* dict.get(key, default)
DictGet(d, key, default) == IF key \in DOMAIN d THEN d[key] ELSE default

-----------------------------------------------------------------------------
(* Fixed-point arithmetic *)

\* the nearest integer to a / b (b > 0), ties to the even neighbour
RoundDiv(a, b) ==
    LET q == a \div b
        r == a % b
    IN  IF 2 * r < b THEN q
        ELSE IF 2 * r > b THEN q + 1
        ELSE IF q % 2 = 0 THEN q ELSE q + 1

\* the nearest integer to x * n / d, computed without leaving 32 bits
MulFrac(x, n, d) == (x \div d) * n + RoundDiv((x % d) * n, d)

Min(a, b) == IF a <= b THEN a ELSE b
Max(a, b) == IF a >= b THEN a ELSE b

\* round(x, 5): the nearest multiple of 10 millionths; dir decides a decimal tie
Round5(x, dir) ==
    LET q == x \div 10
        r == x % 10
    IN  IF r < 5 THEN 10 * q
        ELSE IF r > 5 THEN 10 * (q + 1)
        ELSE 10 * (q + dir)

-----------------------------------------------------------------------------
(* The random generator *)

Tapes == [1..TapeLen -> Draws]

\* the k-th next output of the generator (k = 0 is the next one)
Draw(tp, p, k) == tp[((p + k) % Len(tp)) + 1]

Advance(tp, p, k) == (p + k) % Len(tp)

\* random.randint(a, b) from one output u of the generator
RandInt(u, a, b) == a + ((u * (b - a + 1)) \div 100)

-----------------------------------------------------------------------------
(* generate_dummy_price *)

\* a variant of ResolveBasePrice whose fallback is the start price of the histories
ResolveBasePriceDefault12(symbol, base_price) ==
    IF base_price = None THEN DictGet(default_prices, symbol, 1200000)
    ELSE base_price[1]

\* lines 96-97: the explicit base price, else the catalog default, else 1.0
ResolveBasePrice(symbol, base_price) ==
    IF base_price = None THEN DictGet(default_prices, symbol, 1000000)
    ELSE base_price[1]

\* lines 103-108: volatility and pip_size (the same number in both branches)
PipSize(symbol) == IF ContainsJPY(symbol) THEN 10000 ELSE 100

\* line 111: (base_price - last_price) * 0.001
Trend(base_price, last_price) == MulFrac(base_price - last_price, 1, 1000)

\* line 112: (random.random() - 0.5) * volatility * 2, u the draw in hundredths
RandomChange(u, volatility) == MulFrac((u - 50) * volatility * 2, 1, 100)

\* a variant of Clamp that forgets the lower bound
ClampNoLower(min_price, max_price, new_price) == Min(max_price, new_price)

\* line 119: max(min_price, min(max_price, new_price))
Clamp(min_price, max_price, new_price) == Max(min_price, Min(max_price, new_price))

\* a variant of Spread that draws the number of pips from 1..4
SpreadUpTo4(pip_size, u) == pip_size * RandInt(u, 1, 4)

\* line 122: pip_size * random.randint(1, 3)
Spread(pip_size, u) == pip_size * RandInt(u, 1, 3)

\* a variant of StoreLastPrice that replaces the dict by one with the symbol alone
StoreAsOnlyPrice(lp, symbol, new_price) == [s \in {symbol} |-> new_price]

\* a variant of StoreLastPrice that stores the price as it is emitted
StoreEmittedPrice(lp, symbol, new_price) ==
    [s \in (DOMAIN lp) \cup {symbol} |-> IF s = symbol THEN Round5(new_price, 0) ELSE lp[s]]

\* line 127: self.last_prices[symbol] = new_price
StoreLastPrice(lp, symbol, new_price) ==
    [s \in (DOMAIN lp) \cup {symbol} |-> IF s = symbol THEN new_price ELSE lp[s]]

\* a variant of DummyQuote that derives the volume from the clock as well
DummyQuoteClockVolume(symbol, new_price, bid, ask, volume, now, ties) ==
    [symbol |-> symbol,
     price |-> Round5(new_price, ties[1]),
     bid |-> Round5(bid, ties[2]),
     ask |-> Round5(ask, ties[3]),
     volume |-> 100 + ((volume + now) % 901),
     timestamp |-> now,
     source |-> "dummy"]

\* a variant of DummyQuote that labels the quote as the adapter does
DummyQuoteMislabelled(symbol, new_price, bid, ask, volume, now, ties) ==
    [symbol |-> symbol,
     price |-> Round5(new_price, ties[1]),
     bid |-> Round5(bid, ties[2]),
     ask |-> Round5(ask, ties[3]),
     volume |-> volume,
     timestamp |-> now,
     source |-> "yfinance"]

\* lines 129-137: the returned dict
DummyQuote(symbol, new_price, bid, ask, volume, now, ties) ==
    [symbol |-> symbol,
     price |-> Round5(new_price, ties[1]),
     bid |-> Round5(bid, ties[2]),
     ask |-> Round5(ask, ties[3]),
     volume |-> volume,
     timestamp |-> now,
     source |-> "dummy"]

\* a variant of GenLocals that puts the whole spread on the ask side
GenLocalsSpreadOnAsk(lp, symbol, base_price_arg, tp, p) ==
    LET base_price == ResolveBasePrice(symbol, base_price_arg)
        last_price == DictGet(lp, symbol, base_price)
        new_price == Clamp(MulFrac(base_price, 95, 100), MulFrac(base_price, 105, 100),
                           last_price + Trend(base_price, last_price)
                             + RandomChange(Draw(tp, p, 0), PipSize(symbol)))
        spread == Spread(PipSize(symbol), Draw(tp, p, 1))
    IN  [base_price |-> base_price, last_price |-> last_price,
         new_price |-> new_price, pip_size |-> PipSize(symbol),
         spread |-> spread,
         bid |-> new_price,
         ask |-> new_price + spread]

\* lines 96-124: the locals of the method up to the spread
GenLocals(lp, symbol, base_price_arg, tp, p) ==
    LET base_price == ResolveBasePrice(symbol, base_price_arg)
        last_price == DictGet(lp, symbol, base_price)
        volatility == PipSize(symbol)
        pip_size == PipSize(symbol)
        trend == Trend(base_price, last_price)
        random_change == RandomChange(Draw(tp, p, 0), volatility)
        min_price == MulFrac(base_price, 95, 100)
        max_price == MulFrac(base_price, 105, 100)
        new_price == Clamp(min_price, max_price, last_price + trend + random_change)
        spread == Spread(pip_size, Draw(tp, p, 1))
    IN  [base_price |-> base_price, last_price |-> last_price,
         new_price |-> new_price, pip_size |-> pip_size,
         spread |-> spread,
         bid |-> new_price - RoundDiv(spread, 2),
         ask |-> new_price + RoundDiv(spread, 2)]

\* The whole method.  lp is self.last_prices, tp and p the random generator, ties
\* the directions of the three roundings, now the clock.  Returns the dict, the
\* new self.last_prices, the number of draws, and the locals the claims speak of.
generate_dummy_price(lp, symbol, base_price_arg, tp, p, ties, now) ==
    LET l == GenLocals(lp, symbol, base_price_arg, tp, p)
        volume == RandInt(Draw(tp, p, 2), 100, 1000)
    IN  [kind |-> "return",
         value |-> Some(DummyQuote(symbol, l.new_price, l.bid, l.ask, volume, now, ties)),
         last_prices |-> StoreLastPrice(lp, symbol, l.new_price),
         draws |-> 3,
         locals |-> l]

-----------------------------------------------------------------------------
(* The provider: what yfinance answers for one call of the adapter *)

\* a value of the provider: Python None, a number, or something float() rejects
PNone == [t |-> "none", v |-> 0]
Num(n) == [t |-> "num", v |-> n]
Junk == [t |-> "junk", v |-> 0]

\* Python truthiness of a provider value
Truthy(x) == x.t = "junk" \/ (x.t = "num" /\ x.v # 0)

\* a or b
PyOr(a, b) == IF Truthy(a) THEN a ELSE b

\* A response: whether yf.Ticker / ticker.info raises, the info dict, whether
\* ticker.history raises, and the 'Close' column of the frame it returns.
Response(raises, info, hist_raises, closes) ==
    [raises |-> raises, info |-> info, hist_raises |-> hist_raises, closes |-> closes]

NoInfo == [k \in {} |-> PNone]

ProviderResponses ==
    { Response(TRUE, NoInfo, FALSE, <<>>),
      Response(FALSE, [k \in {"regularMarketPrice", "bid", "ask", "volume"} |->
                        CASE k = "regularMarketPrice" -> Num(1234560)
                          [] k = "bid" -> Num(1234500)
                          [] k = "ask" -> Num(1234600)
                          [] k = "volume" -> Num(77)], FALSE, <<>>),
      Response(FALSE, [k \in {"regularMarketPrice", "bid", "ask"} |->
                        CASE k = "regularMarketPrice" -> Num(0)
                          [] k = "bid" -> PNone
                          [] k = "ask" -> Num(1234600)], FALSE, <<>>),
      Response(FALSE, [k \in {"regularMarketPrice"} |-> Junk], FALSE, <<>>),
      Response(FALSE, NoInfo, FALSE, <<>>),
      Response(FALSE, NoInfo, FALSE, <<1234000, 1234560>>),
      Response(FALSE, NoInfo, TRUE, <<>>) }

\* the provider gives the adapter nothing to build a quote from: it raises, a
\* value cannot be converted, or no price is reported
ProviderFails(resp) ==
    \/ resp.raises
    \/ \E k \in DOMAIN resp.info : resp.info[k].t = "junk"
    \/ /\ \A k \in DOMAIN resp.info \cap {"regularMarketPrice", "bid", "ask"} :
              resp.info[k].t = "none"
       /\ (resp.hist_raises \/ resp.closes = <<>>)

\* the response of a call that never reaches the provider
NoResponse == Response(TRUE, NoInfo, TRUE, <<>>)

-----------------------------------------------------------------------------
(* get_real_price *)

Return(v) == [kind |-> "return", value |-> v]
Raise == [kind |-> "raise", value |-> None]

\* lines 47-75: the body of the try block
FetchQuote(symbol, resp, now) ==
    IF resp.raises THEN Raise
    ELSE
    LET info == resp.info
        quoted == PyOr(PyOr(DictGet(info, "regularMarketPrice", PNone),
                            DictGet(info, "bid", PNone)),
                       DictGet(info, "ask", PNone))
        need_hist == quoted.t = "none"
        current_price == IF need_hist /\ ~resp.hist_raises /\ Len(resp.closes) > 0
                         THEN Num(resp.closes[Len(resp.closes)])
                         ELSE quoted
        bid == DictGet(info, "bid", current_price)
        ask == DictGet(info, "ask", current_price)
        volume == DictGet(info, "volume", Num(0))
        bid_out == IF Truthy(bid) THEN bid ELSE current_price
        ask_out == IF Truthy(ask) THEN ask ELSE current_price
    IN  IF need_hist /\ resp.hist_raises THEN Raise
        ELSE IF current_price.t = "none" THEN Return(None)
        ELSE IF current_price.t = "junk" \/ bid_out.t = "junk" \/ ask_out.t = "junk"
                \/ volume.t = "junk"
        THEN Raise
        ELSE Return(Some([symbol |-> symbol,
                          price |-> current_price.v,
                          bid |-> bid_out.v,
                          ask |-> ask_out.v,
                          volume |-> IF Truthy(volume) THEN volume.v ELSE 0,
                          timestamp |-> now,
                          source |-> "yfinance"]))

\* a variant of CatchAll without the except clause
CatchNothing(r) == r

\* lines 46, 77-79: try / except Exception: return None
CatchAll(r) == IF r.kind = "raise" THEN Return(None) ELSE r

\* lines 42-44: the catalog lookup; TRUE when the symbol has an identifier
HasYahooSymbol(symbol) == symbol \in DOMAIN symbol_mapping

\* The whole method; queried tells whether the provider was called.
get_real_price(avail, symbol, resp, now) ==
    IF ~avail THEN [kind |-> "return", value |-> None, queried |-> FALSE]
    ELSE IF ~HasYahooSymbol(symbol)
    THEN [kind |-> "return", value |-> None, queried |-> FALSE]
    ELSE LET r == CatchAll(FetchQuote(symbol, resp, now))
         IN  [kind |-> r.kind, value |-> r.value, queried |-> TRUE]

-----------------------------------------------------------------------------
(* get_price *)

\* a variant of RealDataTruthy with the test inverted (if not real_data)
RealDataFalsy(real) == real.kind = "return" /\ real.value = None

\* line 144: if real_data (None is falsy, a non-empty dict is truthy)
RealDataTruthy(real) == real.kind = "return" /\ real.value # None

\* what the adapter did, as the caller sees it
AdapterOutcome(real) ==
    IF real.kind = "raise" THEN "raise"
    ELSE IF real.value = None THEN "unavailable" ELSE "quote"

\* a variant of get_price that runs the generator before it tries the adapter
get_price_eager(avail, lp, symbol, use_real_data, base_price, resp, tp, p, ties, now) ==
    LET real == get_real_price(avail, symbol, resp, now)
        gen == generate_dummy_price(lp, symbol, base_price, tp, p, ties, now)
    IN  IF use_real_data /\ real.kind = "raise"
        THEN [kind |-> "raise", value |-> None, last_prices |-> gen.last_prices,
              draws |-> gen.draws,
              adapter |-> "raise", queried |-> real.queried, adapter_value |-> None,
              generator |-> TRUE, locals |-> gen.locals]
        ELSE IF use_real_data /\ RealDataTruthy(real)
        THEN [kind |-> "return", value |-> real.value, last_prices |-> gen.last_prices,
              draws |-> gen.draws,
              adapter |-> AdapterOutcome(real), queried |-> real.queried,
              adapter_value |-> real.value,
              generator |-> TRUE, locals |-> gen.locals]
        ELSE [kind |-> gen.kind, value |-> gen.value, last_prices |-> gen.last_prices,
              draws |-> gen.draws,
              adapter |-> IF use_real_data THEN AdapterOutcome(real) ELSE "not called",
              queried |-> use_real_data /\ real.queried,
              adapter_value |-> IF use_real_data THEN real.value ELSE None,
              generator |-> TRUE, locals |-> gen.locals]

\* lines 142-148.  Returns what the call returns or raises, the new
\* self.last_prices, the number of draws, and which collaborators ran.
get_price(avail, lp, symbol, use_real_data, base_price, resp, tp, p, ties, now) ==
    LET real == get_real_price(avail, symbol, resp, now)
        gen == generate_dummy_price(lp, symbol, base_price, tp, p, ties, now)
        none == [base_price |-> 0, last_price |-> 0, new_price |-> 0, pip_size |-> 0,
                 spread |-> 0, bid |-> 0, ask |-> 0]
    IN  IF use_real_data /\ real.kind = "raise"
        THEN [kind |-> "raise", value |-> None, last_prices |-> lp, draws |-> 0,
              adapter |-> "raise", queried |-> real.queried, adapter_value |-> None,
              generator |-> FALSE, locals |-> none]
        ELSE IF use_real_data /\ RealDataTruthy(real)
        THEN [kind |-> "return", value |-> real.value, last_prices |-> lp, draws |-> 0,
              adapter |-> AdapterOutcome(real), queried |-> real.queried,
              adapter_value |-> real.value,
              generator |-> FALSE, locals |-> none]
        ELSE [kind |-> gen.kind, value |-> gen.value, last_prices |-> gen.last_prices,
              draws |-> gen.draws,
              adapter |-> IF use_real_data THEN AdapterOutcome(real) ELSE "not called",
              queried |-> use_real_data /\ real.queried,
              adapter_value |-> IF use_real_data THEN real.value ELSE None,
              generator |-> TRUE, locals |-> gen.locals]

-----------------------------------------------------------------------------
(* _generate_dummy_historical *)

\* line 188 and line 191: period_hours.get(period, 24)
period_hours ==
    [q \in {"1d", "5d", "1mo"} |->
        CASE q = "1d" -> 24 [] q = "5d" -> 120 [] q = "1mo" -> 720]

Hours(period) == DictGet(period_hours, period, 24)

\* line 189 and line 192: interval_minutes.get(interval, 1)
interval_minutes ==
    [q \in {"1m", "5m", "15m", "1h"} |->
        CASE q = "1m" -> 1 [] q = "5m" -> 5 [] q = "15m" -> 15 [] q = "1h" -> 60]

Minutes(interval) == DictGet(interval_minutes, interval, 1)

\* a variant of DataPoints that counts both ends of the window
DataPointsInclusive(hours, minutes) == (hours * 60) \div minutes + 1

\* line 195: int((hours * 60) / minutes)
DataPoints(hours, minutes) == (hours * 60) \div minutes

\* a variant of StartPrice that falls back to the generator's default base price
StartPriceFromDefaults(lp, symbol) ==
    DictGet(lp, symbol, DictGet(default_prices, symbol, 1000000))

\* line 199: self.last_prices.get(symbol, 1.2000)
StartPrice(lp, symbol) == DictGet(lp, symbol, 1200000)

\* a variant of BarTimestamp that is one interval early
BarTimestampEarly(end_time, minutes, data_points, i) ==
    end_time - minutes * (data_points - i)

\* line 202: end_time - timedelta(minutes=minutes * (data_points - i - 1)), in minutes
BarTimestamp(end_time, minutes, data_points, i) ==
    end_time - minutes * (data_points - i - 1)

\* a variant of HistVolatility with the two scales exchanged
HistVolatilityExchanged(symbol) == IF ~ContainsJPY(symbol) THEN 10000 ELSE 100

\* line 206: 0.0001 if 'JPY' not in symbol else 0.01
HistVolatility(symbol) == IF ~ContainsJPY(symbol) THEN 100 ELSE 10000

\* line 208: open_price + random.random() * volatility
High(open_price, u, volatility) == open_price + MulFrac(u * volatility, 1, 100)

\* line 209: open_price - random.random() * volatility
Low(open_price, u, volatility) == open_price - MulFrac(u * volatility, 1, 100)

\* a variant of Close that starts from the high instead of the low
CloseFromHigh(low, high, u) == high + MulFrac(u * (high - low), 1, 100)

\* line 210: low + random.random() * (high - low)
Close(low, high, u) == low + MulFrac(u * (high - low), 1, 100)

\* a variant of KeepLastPrices that writes the close back as the symbol's last price
WriteBackClose(lp, symbol, close) == StoreLastPrice(lp, symbol, close)

\* line 221: current_price = close assigns the local of the loop;
\* self.last_prices is read at line 199 and assigned nowhere in the method
KeepLastPrices(lp, symbol, close) == lp

\* the unrounded open, high, low, close of one pass of the loop body (lines 205-210)
BarPrices(symbol, current_price, tp, p) ==
    LET open_price == current_price
        volatility == HistVolatility(symbol)
        high == High(open_price, Draw(tp, p, 0), volatility)
        low == Low(open_price, Draw(tp, p, 1), volatility)
        close == Close(low, high, Draw(tp, p, 2))
    IN  [open |-> open_price, high |-> high, low |-> low, close |-> close]

\* lines 212-219: the appended dict; dirs gives the direction of round(x, 5) for
\* each of the four values that is a decimal tie
BarDict(timestamp, raw, volume, dirs) ==
    [timestamp |-> timestamp,
     open |-> Round5(raw.open, DictGet(dirs, raw.open, 0)),
     high |-> Round5(raw.high, DictGet(dirs, raw.high, 0)),
     low |-> Round5(raw.low, DictGet(dirs, raw.low, 0)),
     close |-> Round5(raw.close, DictGet(dirs, raw.close, 0)),
     volume |-> volume]

\* The directions the roundings of one bar can take: one per distinct tie value
\* (equal floats round alike); the open is the float of the previous close and
\* keeps the direction dir it had there.
BarDirs(raw, dir) ==
    LET tied == {x \in {raw.open, raw.high, raw.low, raw.close} : x % 10 = 5}
    IN  {d \in [tied -> {0, 1}] : raw.open \in tied => d[raw.open] = dir}

-----------------------------------------------------------------------------
(* get_historical_data *)

\* lines 7-19: the names the module imports; pandas (pd) is not among them
ImportedNames == {"json", "time", "random", "sys", "datetime", "timedelta",
                  "Dict", "List", "Optional", "yf"}

\* A response of ticker.history: whether it raises, and the rows of the frame
\* (open, high, low, close, volume; a volume of -1 stands for NaN).
HistoryResponses ==
    { [raises |-> TRUE, rows |-> <<>>],
      [raises |-> FALSE, rows |-> <<>>],
      [raises |-> FALSE,
       rows |-> << [open |-> 1234000, high |-> 1234900, low |-> 1233800,
                    close |-> 1234560, volume |-> 12],
                   [open |-> 1234560, high |-> 1234700, low |-> 1234100,
                    close |-> 1234200, volume |-> -1] >>] }

NoHistory == [raises |-> TRUE, rows |-> <<>>]

\* lines 169-176: one row of the frame as a dict; the timestamp is the row number
ExternalBar(rows, j) ==
    [timestamp |-> j, open |-> rows[j].open, high |-> rows[j].high,
     low |-> rows[j].low, close |-> rows[j].close,
     volume |-> IF rows[j].volume # -1 THEN rows[j].volume ELSE 0]

\* lines 161-178: the body of the try block.  "fallback" is the return at line 165.
FetchHistory(resp) ==
    IF resp.raises THEN Raise
    ELSE IF Len(resp.rows) = 0 THEN [kind |-> "fallback", value |-> None]
    ELSE IF "pd" \notin ImportedNames THEN Raise
    ELSE Return(Some([j \in 1..Len(resp.rows) |-> ExternalBar(resp.rows, j)]))

\* lines 153-182 up to the call of _generate_dummy_historical: the external
\* series, or None when the method goes on to the synthesizer
ExternalHistory(avail, symbol, resp) ==
    IF ~avail THEN None
    ELSE IF ~HasYahooSymbol(symbol) THEN None
    ELSE LET r == FetchHistory(resp)
         IN  IF r.kind = "return" THEN r.value ELSE None

-----------------------------------------------------------------------------
(* The service as a state machine *)

\* the base_price arguments callers pass: none, 2.0009, -1.0
BasePrices == {None, Some(2000900), Some(-1000000)}

\* the directions round(x, 5) can take on x: both at a decimal tie, else none to choose
TieDirs(x) == IF x % 10 = 5 THEN {0, 1} ELSE {0}

\* the directions of the roundings of price, bid and ask of one generated quote
Ties(new_price, bid, ask) ==
    {<<a, b, c>> : a \in TieDirs(new_price), b \in TieDirs(bid), c \in TieDirs(ask)}

NoTies == <<0, 0, 0>>

NoLocals == [base_price |-> 0, last_price |-> 0, new_price |-> 0, pip_size |-> 0,
             spread |-> 0, bid |-> 0, ask |-> 0]

NoResult ==
    [op |-> "none", symbol |-> <<>>, use_real_data |-> FALSE, base_price |-> None,
     kind |-> "return", value |-> None, adapter |-> "not called", queried |-> FALSE,
     provider_fails |-> FALSE, adapter_value |-> None, generator |-> FALSE,
     locals |-> NoLocals, before |-> [last_prices |-> [s \in {} |-> 0], pos |-> 0]]

HistIdle == [pc |-> "idle"]

\* no second process, no concurrent callers, no command line
NoTwin == [on |-> FALSE]
NoThreads == <<>>
NoCli == [pc |-> "none"]

\* PriceService(): lines 14-19 and 22-35
Init ==
    /\ YFINANCE_AVAILABLE \in BOOLEAN
    /\ last_prices = [s \in {} |-> 0]
    /\ tape \in Tapes
    /\ pos = 0
    /\ ncalls = 0
    /\ result = NoResult
    /\ hist = HistIdle
    /\ twin = NoTwin
    /\ threads = NoThreads
    /\ cli = NoCli

\* the effect of one call of get_price on the service, the generator and the
\* record of the call, for every answer the provider can give
GetPriceCall(symbol, use_real_data, base_price) ==
    \E l \in {GenLocals(last_prices, symbol, base_price, tape, pos)} :
      \E resp \in IF use_real_data /\ YFINANCE_AVAILABLE /\ HasYahooSymbol(symbol)
                   THEN ProviderResponses ELSE {NoResponse} :
      \E ties \in IF use_real_data
                      /\ RealDataTruthy(get_real_price(YFINANCE_AVAILABLE, symbol,
                                                       resp, ncalls))
                   THEN {NoTies} ELSE Ties(l.new_price, l.bid, l.ask) :
      \E r \in {get_price(YFINANCE_AVAILABLE, last_prices, symbol, use_real_data,
                         base_price, resp, tape, pos, ties, ncalls)} :
          /\ last_prices' = r.last_prices
          /\ pos' = Advance(tape, pos, r.draws)
          /\ result' = [op |-> "get_price", symbol |-> symbol,
                        use_real_data |-> use_real_data, base_price |-> base_price,
                        kind |-> r.kind, value |-> r.value, adapter |-> r.adapter,
                        queried |-> r.queried,
                        provider_fails |-> r.queried /\ ProviderFails(resp),
                        adapter_value |-> r.adapter_value,
                        generator |-> r.generator, locals |-> r.locals,
                        before |-> [last_prices |-> last_prices, pos |-> pos]]

\* service.get_price(symbol, use_real_data, base_price)
GetPrice ==
    /\ hist.pc = "idle"
    /\ ncalls < MaxCalls
    /\ \E symbol \in Symbols, use_real_data \in BOOLEAN, base_price \in BasePrices :
          GetPriceCall(symbol, use_real_data, base_price)
    /\ ncalls' = ncalls + 1
    /\ UNCHANGED <<YFINANCE_AVAILABLE, tape, hist, scenario>>

\* service.generate_dummy_price(symbol, base_price)
GenerateDummyPrice ==
    /\ hist.pc = "idle"
    /\ ncalls < MaxCalls
    /\ \E symbol \in Symbols, base_price \in BasePrices :
          \E l \in {GenLocals(last_prices, symbol, base_price, tape, pos)} :
          \E ties \in Ties(l.new_price, l.bid, l.ask) :
          \E r \in {generate_dummy_price(last_prices, symbol, base_price, tape, pos,
                                        ties, ncalls)} :
              /\ last_prices' = r.last_prices
              /\ pos' = Advance(tape, pos, r.draws)
              /\ result' = [op |-> "generate_dummy_price", symbol |-> symbol,
                            use_real_data |-> FALSE, base_price |-> base_price,
                            kind |-> r.kind, value |-> r.value, adapter |-> "not called",
                            queried |-> FALSE, provider_fails |-> FALSE,
                            adapter_value |-> None,
                            generator |-> TRUE, locals |-> r.locals,
                            before |-> [last_prices |-> last_prices, pos |-> pos]]
    /\ ncalls' = ncalls + 1
    /\ UNCHANGED <<YFINANCE_AVAILABLE, tape, hist, scenario>>

\* the period and interval arguments callers pass: the recognized ones and another
Periods == {"1d", "5d", "1mo", "2y"}
Intervals == {"1m", "5m", "15m", "1h", "1wk"}

NoBar == [timestamp |-> 0, open |-> 0, high |-> 0, low |-> 0, close |-> 0, volume |-> 0]
NoRaw == [open |-> 0, high |-> 0, low |-> 0, close |-> 0]

\* the entry of one call of get_historical_data, lines 153-182 and 188-199, for
\* every answer the provider can give: the call either returns the external
\* series or enters the loop of the synthesizer
GetHistoricalDataCall(symbol, period, interval) ==
    \E resp \in IF YFINANCE_AVAILABLE /\ HasYahooSymbol(symbol)
                 THEN HistoryResponses ELSE {NoHistory} :
    \E ext \in {ExternalHistory(YFINANCE_AVAILABLE, symbol, resp)} :
    \E dir \in TieDirs(StartPrice(last_prices, symbol)) :
      hist' = [pc |-> IF ext # None THEN "done" ELSE "loop",
               symbol |-> symbol, period |-> period, interval |-> interval,
               queried |-> YFINANCE_AVAILABLE /\ HasYahooSymbol(symbol),
               provider_rows |-> IF resp.raises THEN 0 ELSE Len(resp.rows),
               external |-> ext,
               synthesized |-> ext = None,
               minutes |-> Minutes(interval),
               data_points |-> DataPoints(Hours(period), Minutes(interval)),
               end_time |-> ncalls,
               start_price |-> StartPrice(last_prices, symbol),
               current_price |-> StartPrice(last_prices, symbol),
               dir |-> IF ext # None THEN 0 ELSE dir,
               i |-> 0,
               n |-> 0,
               raw |-> NoRaw,
               bar |-> NoBar,
               prev |-> NoBar]

\* service.get_historical_data(symbol, period, interval)
GetHistoricalData ==
    /\ hist.pc # "loop"
    /\ ncalls < MaxCalls
    /\ \E symbol \in Symbols, period \in Periods, interval \in Intervals :
          GetHistoricalDataCall(symbol, period, interval)
    /\ ncalls' = ncalls + 1
    /\ UNCHANGED <<YFINANCE_AVAILABLE, last_prices, tape, pos, result, scenario>>

\* one pass of the loop of _generate_dummy_historical, lines 201-221
HistBar ==
    /\ hist.pc = "loop"
    /\ hist.i < hist.data_points
    /\ hist.data_points <= MaxBars
    /\ \E raw \in {BarPrices(hist.symbol, hist.current_price, tape, pos)} :
        \E dirs \in BarDirs(raw, hist.dir) :
          /\ hist' = [hist EXCEPT
                     !.bar = BarDict(BarTimestamp(hist.end_time, hist.minutes,
                                                  hist.data_points, hist.i),
                                     raw, RandInt(Draw(tape, pos, 3), 100, 1000), dirs),
                     !.prev = hist.bar,
                     !.raw = raw,
                     !.n = hist.n + 1,
                     !.current_price = raw.close,
                     !.dir = DictGet(dirs, raw.close, 0),
                     !.i = hist.i + 1]
          /\ last_prices' = KeepLastPrices(last_prices, hist.symbol, raw.close)
    /\ pos' = Advance(tape, pos, 4)
    /\ UNCHANGED <<YFINANCE_AVAILABLE, tape, ncalls, result, scenario>>

\* the loop is exhausted: return historical_data, line 223
HistReturn ==
    /\ hist.pc = "loop"
    /\ hist.i = hist.data_points
    /\ hist' = [hist EXCEPT !.pc = "done"]
    /\ UNCHANGED <<YFINANCE_AVAILABLE, last_prices, tape, pos, ncalls, result, scenario>>

Next == GetPrice \/ GenerateDummyPrice

\* The service before its last call: MaxCalls - 1 earlier calls have left no
\* generated price, or the one price of a generate_dummy_price(symbol) call.
InitHist ==
    /\ YFINANCE_AVAILABLE \in BOOLEAN
    /\ tape \in Tapes
    /\ ncalls = MaxCalls - 1
    /\ result = NoResult
    /\ hist = HistIdle
    /\ twin = NoTwin
    /\ threads = NoThreads
    /\ cli = NoCli
    /\ \/ /\ last_prices = [s \in {} |-> 0]
          /\ pos = 0
       \/ \E symbol \in Symbols :
            /\ last_prices = generate_dummy_price([s \in {} |-> 0], symbol, None, tape, 0,
                                                  NoTies, 0).last_prices
            /\ pos = Advance(tape, 0, 3)

NextHist == GetHistoricalData \/ HistBar \/ HistReturn

SpecHist == InitHist /\ [][NextHist]_vars

Spec == Init /\ [][Next]_vars

-----------------------------------------------------------------------------
(* Two processes given the same random source *)

\* the same cyclic sequence of draws, written down from another starting point
Rotate(tp) == [i \in 1..Len(tp) |-> tp[((i + Len(tp) - 2) % Len(tp)) + 1]]

\* Two processes each construct a PriceService.  The second one is started
\* later (its clock differs) and its generator holds the same sequence of draws.
InitTwin ==
    /\ YFINANCE_AVAILABLE \in BOOLEAN
    /\ last_prices = [s \in {} |-> 0]
    /\ tape \in Tapes
    /\ pos = 0
    /\ ncalls = 0
    /\ result = NoResult
    /\ hist = HistIdle
    /\ twin = [on |-> TRUE, last_prices |-> [s \in {} |-> 0], tape |-> Rotate(tape),
               pos |-> 1 % TapeLen, clock |-> 7, value |-> None]
    /\ threads = NoThreads
    /\ cli = NoCli

\* Both processes make the same call service.generate_dummy_price(symbol, base_price).
\* Equal floats round alike, so the directions of the roundings are those of the
\* first process for as long as the two compute the same values.
TwinGenerate ==
    /\ twin.on
    /\ ncalls < MaxCalls
    /\ \E symbol \in Symbols, base_price \in BasePrices :
          \E l \in {GenLocals(last_prices, symbol, base_price, tape, pos)} :
          \E ties \in Ties(l.new_price, l.bid, l.ask) :
          \E r \in {generate_dummy_price(last_prices, symbol, base_price, tape, pos,
                                        ties, ncalls)},
             r2 \in {generate_dummy_price(twin.last_prices, symbol, base_price, twin.tape,
                                         twin.pos, ties, twin.clock)} :
              /\ last_prices' = r.last_prices
              /\ pos' = Advance(tape, pos, r.draws)
              /\ result' = [op |-> "generate_dummy_price", symbol |-> symbol,
                            use_real_data |-> FALSE, base_price |-> base_price,
                            kind |-> r.kind, value |-> r.value, adapter |-> "not called",
                            queried |-> FALSE, provider_fails |-> FALSE,
                            adapter_value |-> None,
                            generator |-> TRUE, locals |-> r.locals,
                            before |-> [last_prices |-> last_prices, pos |-> pos]]
              /\ twin' = [twin EXCEPT !.last_prices = r2.last_prices,
                                      !.pos = Advance(twin.tape, twin.pos, r2.draws),
                                      !.clock = twin.clock + 1,
                                      !.value = r2.value]
    /\ ncalls' = ncalls + 1
    /\ UNCHANGED <<YFINANCE_AVAILABLE, tape, hist, threads, cli>>

NextTwin == TwinGenerate

SpecTwin == InitTwin /\ [][NextTwin]_vars

-----------------------------------------------------------------------------
(* Concurrent callers of one instance *)

\* the callers that share the service, each in a thread of its own
Callers == {1, 2}

CallerIdle == [pc |-> "idle", symbol |-> <<>>, base_price |-> 0, last_price |-> 0,
               new_price |-> 0, order |-> 0]

\* the number of callers whose call has stored its price
Stored == Cardinality({t \in Callers : threads[t].pc = "done"})

\* one PriceService, no call started, shared by the callers
InitConc ==
    /\ YFINANCE_AVAILABLE \in BOOLEAN
    /\ last_prices = [s \in {} |-> 0]
    /\ tape \in Tapes
    /\ pos = 0
    /\ ncalls = 0
    /\ result = NoResult
    /\ hist = HistIdle
    /\ twin = NoTwin
    /\ threads = [t \in Callers |-> CallerIdle]
    /\ cli = NoCli

\* Caller t enters generate_dummy_price(symbol, base_price) and runs it up to
\* the read of self.last_prices, lines 96-100.  Nothing in the method or in
\* __init__ (lines 22-35) holds a lock, so the interpreter may switch threads
\* between this read and the store at line 127.
CallerRead ==
    /\ threads # NoThreads
    /\ ncalls < MaxCalls
    /\ \E t \in Callers, symbol \in Symbols, base_price_arg \in BasePrices :
          /\ threads[t].pc = "idle"
          /\ \E base_price \in {ResolveBasePrice(symbol, base_price_arg)} :
                threads' = [threads EXCEPT ![t] =
                              [pc |-> "read", symbol |-> symbol, base_price |-> base_price,
                               last_price |-> DictGet(last_prices, symbol, base_price),
                               new_price |-> 0, order |-> 0]]
    /\ ncalls' = ncalls + 1
    /\ UNCHANGED <<YFINANCE_AVAILABLE, last_prices, tape, pos, result, hist, twin, cli>>

\* Caller t runs the rest of the method, lines 103-137: the walk step from the
\* last_price it read, the three draws, and the store of new_price.
CallerStore ==
    /\ threads # NoThreads
    /\ \E t \in Callers :
          /\ threads[t].pc = "read"
          /\ \E th \in {threads[t]} :
              \E new_price \in
                    {Clamp(MulFrac(th.base_price, 95, 100), MulFrac(th.base_price, 105, 100),
                           th.last_price + Trend(th.base_price, th.last_price)
                             + RandomChange(Draw(tape, pos, 0), PipSize(th.symbol)))} :
                /\ last_prices' = StoreLastPrice(last_prices, th.symbol, new_price)
                /\ threads' = [threads EXCEPT ![t] =
                                  [th EXCEPT !.pc = "done", !.new_price = new_price,
                                             !.order = Stored + 1]]
    /\ pos' = Advance(tape, pos, 3)
    /\ UNCHANGED <<YFINANCE_AVAILABLE, tape, ncalls, result, hist, twin, cli>>

NextConc == CallerRead \/ CallerStore

SpecConc == InitConc /\ [][NextConc]_vars

-----------------------------------------------------------------------------
(* main: the command line *)

\* The command lines of the model: sys.argv, the program name first.  A word is
\* a string; Python counts positions from 0, the model from 1.
Argvs ==
    { <<"priceService.py">>,
      <<"priceService.py", "price">>,
      <<"priceService.py", "historical">>,
      <<"priceService.py", "bogus">>,
      <<"priceService.py", "bogus", "EUR/USD">>,
      <<"priceService.py", "price", "EUR/USD">>,
      <<"priceService.py", "price", "EUR/USD", "--real">>,
      <<"priceService.py", "price", "XXX/YYY", "--base-price", "2.0009">>,
      <<"priceService.py", "price", "EUR/USD", "--base-price">>,
      <<"priceService.py", "price", "EUR/USD", "--base-price", "abc">>,
      <<"priceService.py", "price", "--real">>,
      <<"priceService.py", "historical", "USD/JPY", "--period", "5d", "--interval", "1h">>,
      <<"priceService.py", "historical", "EUR/USD", "--interval", "1h">>,
      <<"priceService.py", "historical", "EUR/USD">>,
      <<"priceService.py", "historical", "EUR/USD", "--period">> }

\* the characters of a word that stands where the symbol is expected
Chars(word) ==
    CASE word = "EUR/USD" -> EURUSD
      [] word = "USD/JPY" -> USDJPY
      [] word = "XXX/YYY" -> XXXYYY
      [] word = "--real" -> <<"-", "-", "r", "e", "a", "l">>
      [] word = "--period" -> <<"-", "-", "p", "e", "r", "i", "o", "d">>

\* float(word): the number, or None when float raises ValueError
ParseFloat(word) ==
    CASE word = "2.0009" -> Some(2000900)
      [] word = "-1.0" -> Some(-1000000)
      [] OTHER -> None

\* word in sys.argv
InArgv(argv, word) == \E i \in 1..Len(argv) : argv[i] = word

\* sys.argv.index(word): the first position of the word
ArgvIndex(argv, word) ==
    CHOOSE i \in 1..Len(argv) : argv[i] = word /\ \A j \in 1..(i - 1) : argv[j] # word

\* lines 246-248, 263-266, 268-271: the word after a flag, None when the flag is
\* absent or is the last word
FlagValue(argv, flag) ==
    IF InArgv(argv, flag) /\ ArgvIndex(argv, flag) + 1 <= Len(argv)
    THEN Some(argv[ArgvIndex(argv, flag) + 1])
    ELSE None

\* a variant of SymbolRequired that is off by one
SymbolRequiredOffByOne(argv) == Len(argv) < 2

\* lines 238 and 255: len(sys.argv) < 3
SymbolRequired(argv) == Len(argv) < 3

\* what main does with a command line up to the call of the service
Plan(kind, printed, symbol, use_real, base_price, period, interval) ==
    [kind |-> kind, printed |-> printed, symbol |-> symbol, use_real |-> use_real,
     base_price |-> base_price, period |-> period, interval |-> interval]

\* lines 227-277 without the calls of the service: the words printed and the
\* return for a usage error, "crash" for an exception nothing catches, or the
\* call to make
main(argv) ==
    IF Len(argv) < 2
    THEN Plan("usage", <<"Usage: python priceService.py <command> [args]", "Commands:",
                         "  price <symbol> [--real] [--base-price <price>]",
                         "  historical <symbol> [--period <period>] [--interval <interval>]">>,
              <<>>, FALSE, None, "", "")
    ELSE IF argv[2] = "price"
    THEN IF SymbolRequired(argv)
         THEN Plan("error", <<"Error: Symbol required">>, <<>>, FALSE, None, "", "")
         ELSE IF Len(argv) < 3
         THEN Plan("crash", <<>>, <<>>, FALSE, None, "", "")
         ELSE LET v == FlagValue(argv, "--base-price")
              IN  IF v # None /\ ParseFloat(v[1]) = None
                  THEN Plan("crash", <<>>, <<>>, FALSE, None, "", "")
                  ELSE Plan("price", <<>>, Chars(argv[3]), InArgv(argv, "--real"),
                            IF v = None THEN None ELSE ParseFloat(v[1]), "", "")
    ELSE IF argv[2] = "historical"
    THEN IF SymbolRequired(argv)
         THEN Plan("error", <<"Error: Symbol required">>, <<>>, FALSE, None, "", "")
         ELSE IF Len(argv) < 3
         THEN Plan("crash", <<>>, <<>>, FALSE, None, "", "")
         ELSE LET p == FlagValue(argv, "--period")
                  q == FlagValue(argv, "--interval")
              IN  Plan("historical", <<>>, Chars(argv[3]), FALSE, None,
                       IF p = None THEN "1d" ELSE p[1],
                       IF q = None THEN "1m" ELSE q[1])
    ELSE Plan("unknown", <<"Unknown command: ", argv[2]>>, <<>>, FALSE, None, "", "")

CliStart == [pc |-> "start"]

\* python priceService.py ...: the module is imported, main() has not run yet
InitMain ==
    /\ YFINANCE_AVAILABLE \in BOOLEAN
    /\ last_prices = [s \in {} |-> 0]
    /\ tape \in Tapes
    /\ pos = 0
    /\ ncalls = 0
    /\ result = NoResult
    /\ hist = HistIdle
    /\ twin = NoTwin
    /\ threads = NoThreads
    /\ cli = CliStart

\* main() up to the return of a usage error or of get_price, or up to the entry
\* of get_historical_data
Main ==
    /\ cli.pc = "start"
    /\ \E argv \in Argvs :
        \E m \in {main(argv)} :
          \/ /\ m.kind \in {"usage", "error", "unknown", "crash"}
             /\ cli' = [pc |-> "exit", argv |-> argv, stdout |-> m.printed,
                        invoked |-> "none", crashed |-> m.kind = "crash"]
             /\ UNCHANGED <<last_prices, pos, result, hist, ncalls>>
          \/ /\ m.kind = "price"
             /\ GetPriceCall(m.symbol, m.use_real, m.base_price)
             /\ cli' = [pc |-> "exit", argv |-> argv,
                        stdout |-> IF result'.kind = "return" THEN <<"quote">> ELSE <<>>,
                        invoked |-> "get_price", crashed |-> result'.kind = "raise"]
             /\ ncalls' = ncalls + 1
             /\ UNCHANGED hist
          \/ /\ m.kind = "historical"
             /\ GetHistoricalDataCall(m.symbol, m.period, m.interval)
             /\ cli' = [pc |-> "historical", argv |-> argv, stdout |-> <<>>,
                        invoked |-> "get_historical_data", crashed |-> FALSE]
             /\ ncalls' = ncalls + 1
             /\ UNCHANGED <<last_prices, pos, result>>
    /\ UNCHANGED <<YFINANCE_AVAILABLE, tape, twin, threads>>

\* line 274: get_historical_data has returned, main prints the series
MainPrintHistory ==
    /\ cli.pc = "historical"
    /\ hist.pc = "done"
    /\ cli' = [cli EXCEPT !.pc = "exit", !.stdout = <<"history">>]
    /\ UNCHANGED <<YFINANCE_AVAILABLE, last_prices, tape, pos, ncalls, result, hist,
                   twin, threads>>

NextMain == Main \/ HistBar \/ HistReturn \/ MainPrintHistory

SpecMain == InitMain /\ [][NextMain]_vars

-----------------------------------------------------------------------------
(* Claims about get_price, generate_dummy_price and get_real_price (Spec) *)

\* the last completed operation ran the Quote Generator and returned its quote
Generated == result.generator /\ result.kind = "return" /\ result.value # None

Quote == result.value[1]

Abs(x) == IF x < 0 THEN -x ELSE x

\* C1 as stated: after every call that runs the generator, the returned price
\* and the stored last_prices[symbol] both lie in [0.95*base_price,
\* 1.05*base_price], base_price being the one resolved for that call.
C1_PriceWithinBand ==
    Generated =>
        LET b == result.locals.base_price
            lo == MulFrac(b, 95, 100)
            hi == MulFrac(b, 105, 100)
        IN  /\ lo <= last_prices[result.symbol] /\ last_prices[result.symbol] <= hi
            /\ lo <= Quote.price /\ Quote.price <= hi

\* C1 amended: after every call that runs the generator, the stored
\* last_prices[symbol] is the clamped new_price; for a base_price >= 0 it lies in
\* [0.95*base_price, 1.05*base_price], for a base_price < 0 it is 0.95*base_price;
\* the returned price is the stored value rounded to 5 decimals, so it is within
\* 0.000005 of the stored value (and may leave the band by that much).
C1_StoredWithinBand ==
    Generated =>
        LET b == result.locals.base_price
            lo == MulFrac(b, 95, 100)
            hi == MulFrac(b, 105, 100)
            stored == last_prices[result.symbol]
        IN  /\ result.symbol \in DOMAIN last_prices
            /\ stored = result.locals.new_price
            /\ b >= 0 => (lo <= stored /\ stored <= hi)
            /\ b < 0 => stored = lo
            /\ Abs(Quote.price - stored) <= 5
            /\ Quote.price % 10 = 0

\* C1 witness: a second call with another explicit base price clamps the walk to
\* the lower bound, and the rounded price returned lies below that bound.
C1_Witness ==
    /\ Generated
    /\ result.base_price = Some(2000900)
    /\ last_prices[result.symbol] = MulFrac(2000900, 95, 100)
    /\ result.locals.last_price < last_prices[result.symbol]
    /\ Quote.price < last_prices[result.symbol]

\* C2: when the adapter returns unavailable, get_price returns the quote of the
\* generator, with source "dummy"; when use_real_data is false the adapter is
\* not called and the generator's quote is returned.
C2_FallbackToGenerator ==
    result.op = "get_price" =>
        /\ ~result.use_real_data =>
              /\ result.adapter = "not called"
              /\ ~result.queried
              /\ Generated
              /\ Quote.source = "dummy"
        /\ (result.use_real_data /\ result.adapter = "unavailable") =>
              /\ Generated
              /\ Quote.source = "dummy"
              /\ Quote.symbol = result.symbol

\* C2 witness: the provider was asked, reported no price, and the call fell back
C2_Witness ==
    /\ result.op = "get_price"
    /\ result.use_real_data
    /\ result.queried
    /\ result.adapter = "unavailable"
    /\ Generated
    /\ Quote.source = "dummy"

\* C3: a get_price call with use_real_data whose adapter returns a quote returns
\* that quote as is, does not run the generator (no draw is consumed), and
\* leaves last_prices unchanged for every symbol.
C3_ExternalQuoteFrame ==
    [][(result'.op = "get_price" /\ ncalls' # ncalls /\ result'.use_real_data
          /\ result'.adapter = "quote")
        => /\ result'.kind = "return"
           /\ result'.value = result'.adapter_value
           /\ ~result'.generator
           /\ last_prices' = last_prices
           /\ pos' = pos]_vars

\* C3 witness: an external quote is returned for a symbol that has a stored price
C3_Witness ==
    /\ result.op = "get_price"
    /\ result.use_real_data
    /\ result.adapter = "quote"
    /\ result.value = result.adapter_value
    /\ result.symbol \in DOMAIN last_prices

\* C4 as stated: every quote get_price returns has source "dummy" or "external":
\* "dummy" from the generator, "external" from the adapter.
C4_SourceDummyOrExternal ==
    (result.op = "get_price" /\ result.kind = "return" /\ result.value # None) =>
        /\ Quote.source \in {"dummy", "external"}
        /\ result.generator => Quote.source = "dummy"
        /\ result.adapter = "quote" => Quote.source = "external"

\* C4 amended: every quote get_price returns has source "dummy" or "yfinance":
\* "dummy" from the generator, "yfinance" from the adapter.
C4_SourceDummyOrYfinance ==
    (result.op = "get_price" /\ result.kind = "return" /\ result.value # None) =>
        /\ Quote.source \in {"dummy", "yfinance"}
        /\ result.generator => Quote.source = "dummy"
        /\ (result.use_real_data /\ result.adapter = "quote") => Quote.source = "yfinance"

\* C4 witness: a quote of the adapter is returned
C4_Witness ==
    /\ result.op = "get_price"
    /\ result.adapter = "quote"
    /\ result.value # None
    /\ Quote.source = "yfinance"

\* C5: get_real_price never raises: without the provider library, or for a
\* symbol that is not in the catalog, it returns unavailable without querying
\* the provider; when the provider fails it returns unavailable; and get_price
\* always returns a quote.
C5_AdapterNeverRaises ==
    result.op = "get_price" =>
        /\ result.kind = "return"
        /\ result.value # None
        /\ result.adapter # "raise"
        /\ (result.use_real_data /\ result.symbol \notin DOMAIN symbol_mapping) =>
              (result.adapter = "unavailable" /\ ~result.queried)
        /\ (result.use_real_data /\ ~YFINANCE_AVAILABLE) =>
              (result.adapter = "unavailable" /\ ~result.queried)
        /\ result.provider_fails => (result.queried /\ result.adapter = "unavailable")

\* C5 witness: the provider failed while fetching, and get_price returned a quote
C5_Witness ==
    /\ result.op = "get_price"
    /\ result.queried
    /\ result.provider_fails
    /\ result.adapter = "unavailable"
    /\ result.kind = "return"
    /\ result.value # None

\* C10 as stated: for every generated quote bid = new_price - spread/2 and
\* ask = new_price + spread/2 with spread = pip_size * k, k in {1,2,3}, pip_size
\* 0.01 for a symbol containing "JPY" and 0.0001 otherwise; and the emitted
\* (rounded) ask - bid equals pip_size * k.
C10_SpreadExactAfterRounding ==
    Generated =>
        LET l == result.locals
            pip == IF result.symbol = USDJPY THEN 10000 ELSE 100
        IN  /\ l.pip_size = pip
            /\ l.spread \in {pip, 2 * pip, 3 * pip}
            /\ 2 * (l.new_price - l.bid) = l.spread
            /\ 2 * (l.ask - l.new_price) = l.spread
            /\ Quote.ask - Quote.bid = l.spread

\* C10 amended: the unrounded bid and ask are new_price -/+ spread/2 with
\* spread = pip_size * k, k in {1,2,3}; the emitted ask - bid differs from
\* pip_size * k by at most 0.00001, and equals it whenever neither bid nor ask
\* falls on a rounding tie.
C10_SpreadWithinRounding ==
    Generated =>
        LET l == result.locals
            pip == IF result.symbol = USDJPY THEN 10000 ELSE 100
        IN  /\ l.pip_size = pip
            /\ l.spread \in {pip, 2 * pip, 3 * pip}
            /\ 2 * (l.new_price - l.bid) = l.spread
            /\ 2 * (l.ask - l.new_price) = l.spread
            /\ Abs((Quote.ask - Quote.bid) - l.spread) <= 10
            /\ (l.bid % 10 # 5 /\ l.ask % 10 # 5) => Quote.ask - Quote.bid = l.spread

\* C10 witness: bid and ask fall on ties that round apart, and the emitted
\* spread is 0.00001 wider than pip_size * k
C10_Witness ==
    /\ Generated
    /\ result.locals.bid % 10 = 5
    /\ Quote.ask - Quote.bid = result.locals.spread + 10

\* C11: get_price on a symbol that is not in the catalog, without an explicit
\* base_price and with either value of use_real_data, is not an error: it
\* returns a dummy quote generated around base price 1.0, with price in
\* [0.95, 1.05], and the symbol has an entry in last_prices afterwards.
C11_UnknownSymbolBaseOne ==
    (result.op = "get_price" /\ result.symbol \notin DOMAIN default_prices
        /\ result.symbol \notin DOMAIN symbol_mapping /\ result.base_price = None) =>
        /\ result.kind = "return"
        /\ Generated
        /\ Quote.source = "dummy"
        /\ Quote.symbol = result.symbol
        /\ result.locals.base_price = 1000000
        /\ 950000 <= Quote.price /\ Quote.price <= 1050000
        /\ result.symbol \in DOMAIN last_prices
        /\ 950000 <= last_prices[result.symbol] /\ last_prices[result.symbol] <= 1050000

\* C11 witness: the first call of the service asks for real data of an unknown
\* symbol with the provider library present; the quote is a dummy one near 1.0
\* and the symbol's state has been created
C11_Witness ==
    /\ result.op = "get_price"
    /\ ncalls = 1
    /\ YFINANCE_AVAILABLE
    /\ result.use_real_data
    /\ result.symbol = XXXYYY
    /\ result.base_price = None
    /\ Generated
    /\ Quote.price \in 999900..1000100
    /\ DOMAIN last_prices = {XXXYYY}

\* C14: the generator's state is a chained walk per symbol.  A call reads as
\* last_price the stored last_prices[symbol], or the resolved base_price when
\* the symbol has no state yet; it stores the clamped, unrounded
\* new_price = clamp(last_price + (base_price - last_price)*0.001 + r) with
\* |r| <= volatility, the clamp being to [0.95, 1.05]*base_price; so the next
\* call for the symbol reads exactly that value.
C14_ChainedWalk ==
    (result.op \in {"get_price", "generate_dummy_price"} /\ result.generator) =>
        LET s == result.symbol
            l == result.locals
            b == l.base_price
            before == result.before.last_prices
            vol == IF s = USDJPY THEN 10000 ELSE 100
            r == (Draw(tape, result.before.pos, 0) - 50) * (vol \div 50)
            lo == MulFrac(b, 95, 100)
            hi == MulFrac(b, 105, 100)
        IN  /\ result.base_price # None => b = result.base_price[1]
            /\ l.last_price = IF s \in DOMAIN before THEN before[s] ELSE b
            /\ -vol <= r /\ r <= vol
            /\ l.new_price =
                  Max(lo, Min(hi, l.last_price + MulFrac(b - l.last_price, 1, 1000) + r))
            /\ s \in DOMAIN last_prices
            /\ last_prices[s] = l.new_price

\* C14 witness: the second call for a symbol has read the unrounded price the
\* first one stored, walked on from it and stored the new value
C14_Witness ==
    /\ Generated
    /\ ncalls = 2
    /\ result.symbol = EURUSD
    /\ result.base_price = None
    /\ result.locals.last_price = 1200098
    /\ result.locals.new_price # result.locals.last_price
    /\ last_prices[EURUSD] = result.locals.new_price

\* C19: per-symbol state is independent.  A get_price or generate_dummy_price
\* call for symbol S creates or updates last_prices[S] alone: the stored price
\* of every other symbol and the set of other symbols that have state are
\* unchanged; and the walk step of the call is the one the same draws give
\* with the state of all other symbols erased, so the prices observed for S
\* do not depend on calls made for other symbols.
C19_PerSymbolFrame ==
    result.op \in {"get_price", "generate_dummy_price"} =>
        LET S == result.symbol
            before == result.before.last_prices
            own == [s \in (DOMAIN before) \cap {S} |-> before[s]]
        IN  /\ (DOMAIN last_prices) \ {S} = (DOMAIN before) \ {S}
            /\ \A s \in (DOMAIN before) \ {S} : last_prices[s] = before[s]
            /\ result.generator =>
                  /\ S \in DOMAIN last_prices
                  /\ result.locals.last_price
                        = DictGet(own, S, result.locals.base_price)
                  /\ last_prices[S]
                        = GenLocals(own, S, result.base_price, tape,
                                    result.before.pos).new_price
            /\ ~result.generator => last_prices = before

\* C19 witness: after a call for another symbol, the first call for USD/JPY has
\* started from its own base price and left the other symbol's price as stored
C19_Witness ==
    /\ Generated
    /\ ncalls = 2
    /\ result.symbol = USDJPY
    /\ result.locals.last_price = 110000000
    /\ DOMAIN last_prices = {EURUSD, USDJPY}
    /\ last_prices[EURUSD] = 1200098
    /\ last_prices[USDJPY] # 110000000

\* C20 as stated: every generated quote is ordered, bid < price < ask, before
\* and after rounding to 5 decimals, and the price is the exact midpoint of
\* bid and ask.
C20_OrderedExactMidpoint ==
    Generated =>
        LET l == result.locals
        IN  /\ l.bid < l.new_price /\ l.new_price < l.ask
            /\ 2 * l.new_price = l.bid + l.ask
            /\ Quote.bid < Quote.price /\ Quote.price < Quote.ask
            /\ 2 * Quote.price = Quote.bid + Quote.ask

\* C20 amended: every generated quote is ordered, bid < price < ask, before
\* and after rounding to 5 decimals; before rounding the price is the exact
\* midpoint of bid and ask; the emitted price is within 0.00001 of the midpoint
\* of the emitted bid and ask, and is that midpoint whenever new_price is not
\* at a rounding tie.
C20_OrderedNearMidpoint ==
    Generated =>
        LET l == result.locals
        IN  /\ l.bid < l.new_price /\ l.new_price < l.ask
            /\ 2 * l.new_price = l.bid + l.ask
            /\ Quote.bid < Quote.price /\ Quote.price < Quote.ask
            /\ Abs(2 * Quote.price - (Quote.bid + Quote.ask)) <= 20
            /\ l.new_price % 10 # 5 => 2 * Quote.price = Quote.bid + Quote.ask

\* C20 witness: price, bid and ask are at rounding ties that go different ways;
\* the emitted quote is ordered and its price is not the midpoint
C20_Witness ==
    /\ Generated
    /\ result.locals.new_price % 10 = 5
    /\ Quote.bid < Quote.price
    /\ Quote.price < Quote.ask
    /\ 2 * Quote.price # Quote.bid + Quote.ask

-----------------------------------------------------------------------------
(* Claims about two processes (SpecTwin) *)

-----------------------------------------------------------------------------
(* Claims about concurrent callers (SpecConc) *)

\* C15 as stated: the read of last_prices[symbol] and the later store of
\* new_price are serialized per symbol, so no update is lost: when two callers
\* have completed a call for the same symbol, the one that stored second
\* started its walk step from the price the first one stored, and the stored
\* last price is the result of the two steps applied one after the other.
C15_NoLostUpdate ==
    threads # NoThreads =>
        \A t1 \in Callers, t2 \in Callers :
            (/\ threads[t1].pc = "done" /\ threads[t2].pc = "done"
             /\ threads[t1].symbol = threads[t2].symbol
             /\ threads[t1].order < threads[t2].order) =>
                /\ threads[t2].last_price = threads[t1].new_price
                /\ Stored = threads[t2].order =>
                      last_prices[threads[t2].symbol] = threads[t2].new_price

-----------------------------------------------------------------------------
(* Claims about the command line (SpecMain) *)

\* the command line names a command and is a usage error: the command is
\* unknown, or it is price or historical and no word follows it
UsageError(argv) ==
    /\ Len(argv) >= 2
    /\ \/ argv[2] \notin {"price", "historical"}
       \/ Len(argv) = 2

-----------------------------------------------------------------------------
(* Claims about get_historical_data and _generate_dummy_historical (SpecHist) *)

HistCalled == hist.pc # "idle"

\* C6 as stated: the external series is returned, one bar per provider row, and
\* the synthesizer is not invoked, exactly when the provider is present, the
\* symbol is in the catalog and the provider call yields a non-empty frame;
\* otherwise the synthesized series is returned.
C6_ExternalSeriesPreferred ==
    HistCalled =>
        LET nonempty == /\ YFINANCE_AVAILABLE
                        /\ hist.symbol \in DOMAIN symbol_mapping
                        /\ hist.provider_rows > 0
        IN  /\ nonempty => /\ hist.external # None
                            /\ Len(hist.external[1]) = hist.provider_rows
                            /\ ~hist.synthesized
            /\ ~nonempty => (hist.external = None /\ hist.synthesized)

\* the bar count of the claim, as a table
ExpectedBars(period, interval) ==
    LET p == IF period \in {"1d", "5d", "1mo"} THEN period ELSE "1d"
        q == IF interval \in {"1m", "5m", "15m", "1h"} THEN interval ELSE "1m"
    IN  CASE p = "1d"  /\ q = "1m"  -> 1440
          [] p = "1d"  /\ q = "5m"  -> 288
          [] p = "1d"  /\ q = "15m" -> 96
          [] p = "1d"  /\ q = "1h"  -> 24
          [] p = "5d"  /\ q = "1m"  -> 7200
          [] p = "5d"  /\ q = "5m"  -> 1440
          [] p = "5d"  /\ q = "15m" -> 480
          [] p = "5d"  /\ q = "1h"  -> 120
          [] p = "1mo" /\ q = "1m"  -> 43200
          [] p = "1mo" /\ q = "5m"  -> 8640
          [] p = "1mo" /\ q = "15m" -> 2880
          [] p = "1mo" /\ q = "1h"  -> 720

\* C7: the synthesizer's loop runs floor(period_hours*60/interval_minutes)
\* times for every recognized pair, an unrecognized period counting as 24h and
\* an unrecognized interval as 1 minute (1440 for two unrecognized inputs);
\* every pass appends one bar, and the returned series has that many bars.
C7_BarCount ==
    (HistCalled /\ hist.synthesized) =>
        /\ hist.data_points = ExpectedBars(hist.period, hist.interval)
        /\ hist.n = hist.i
        /\ hist.n <= hist.data_points
        /\ hist.pc = "done" => hist.n = ExpectedBars(hist.period, hist.interval)

\* C7 witness: a series for an unrecognized period and the 15m interval is
\* returned with 96 bars
C7_Witness ==
    /\ hist.pc = "done"
    /\ hist.synthesized
    /\ hist.period = "2y"
    /\ hist.interval = "15m"
    /\ hist.n = 96

\* C8: the bar appended by pass i has timestamp
\* end_time - (bar_count - i - 1) * interval_minutes; consecutive bars are
\* exactly interval_minutes > 0 apart, oldest first; the last bar of the
\* returned series carries the end time taken at the start of the call.
C8_Timestamps ==
    (HistCalled /\ hist.synthesized /\ hist.n >= 1) =>
        /\ hist.bar.timestamp =
              hist.end_time - (ExpectedBars(hist.period, hist.interval) - (hist.n - 1) - 1)
                                * hist.minutes
        /\ hist.minutes > 0
        /\ hist.n >= 2 => hist.bar.timestamp - hist.prev.timestamp = hist.minutes
        /\ hist.pc = "done" => hist.bar.timestamp = hist.end_time

\* C8 witness: a returned 1d/1h series whose last two bars are 60 minutes apart,
\* the last one at the end time
C8_Witness ==
    /\ hist.pc = "done"
    /\ hist.synthesized
    /\ hist.n = 24
    /\ hist.minutes = 60
    /\ hist.bar.timestamp = hist.end_time
    /\ hist.prev.timestamp = hist.end_time - 60

\* C9: in every synthesized bar the emitted (rounded) values satisfy
\* low <= close <= high.
C9_CloseWithinLowHigh ==
    (HistCalled /\ hist.synthesized /\ hist.n >= 1) =>
        /\ hist.bar.low <= hist.bar.close
        /\ hist.bar.close <= hist.bar.high

\* C9 witness: a bar whose unrounded close is a rounding tie just above its low,
\* emitted with low <= close < high
C9_Witness ==
    /\ HistCalled
    /\ hist.synthesized
    /\ hist.n >= 2
    /\ hist.raw.close % 10 = 5
    /\ hist.raw.low < hist.raw.close
    /\ hist.bar.low <= hist.bar.close
    /\ hist.bar.close < hist.bar.high

\* C16: get_historical_data / _generate_dummy_historical never changes
\* last_prices: over every step of a history call, for every symbol, period
\* and interval, the stored price of every symbol and the set of symbols that
\* have an entry are the same after the step as before it, so the last_price
\* a later get_price reads for any symbol and base price is the one it would
\* have read before the history call.
C16_HistoryKeepsLastPrices ==
    [][(hist' # hist) =>
        /\ DOMAIN last_prices' = DOMAIN last_prices
        /\ \A s \in DOMAIN last_prices : last_prices'[s] = last_prices[s]
        /\ \A s \in Symbols, b \in BasePrices :
              DictGet(last_prices', s, ResolveBasePrice(s, b))
                = DictGet(last_prices, s, ResolveBasePrice(s, b))]_vars

\* C16 witness: a 24-bar series has been synthesized for a symbol with a stored
\* price; the walk has moved away from it and the stored price is still the one
\* the walk started from
C16_Witness ==
    /\ hist.pc = "done"
    /\ hist.synthesized
    /\ hist.n = 24
    /\ hist.symbol \in DOMAIN last_prices
    /\ hist.current_price # hist.start_price
    /\ last_prices[hist.symbol] = hist.start_price

\* C17: a synthesized series is a chained walk.  The open of the first pass is
\* the stored last price of the symbol, or 1.2 when the symbol has no stored
\* price (whatever the symbol, JPY pairs included), and the bar carries it
\* rounded to 5 decimals; for every later bar the emitted open equals the
\* emitted close of the bar before it.
C17_HistoryChainedWalk ==
    (HistCalled /\ hist.synthesized /\ hist.n >= 1) =>
        LET stored == IF hist.symbol \in DOMAIN last_prices
                      THEN last_prices[hist.symbol] ELSE 1200000
        IN  /\ hist.n = 1 => /\ hist.raw.open = stored
                             /\ Abs(hist.bar.open - stored) <= 5
                             /\ hist.bar.open % 10 = 0
            /\ hist.n >= 2 => hist.bar.open = hist.prev.close

\* C17 witness: a series for USD/JPY, which has no stored price, started at 1.2;
\* its walk has moved and the last bar opens at the close of the bar before it
C17_Witness ==
    /\ hist.pc = "done"
    /\ hist.synthesized
    /\ hist.symbol = USDJPY
    /\ USDJPY \notin DOMAIN last_prices
    /\ hist.start_price = 1200000
    /\ hist.n >= 2
    /\ hist.bar.open # 1200000
    /\ hist.bar.open = hist.prev.close

\* C18: in every pass of the synthesizer high = open + u1*volatility and
\* low = open - u2*volatility with u1, u2 in [0,1), volatility being 0.01 for
\* a symbol that contains "JPY" and 0.0001 otherwise; hence
\* 0 <= high - open < volatility, 0 <= open - low < volatility and
\* high - low < 2*volatility.  The bar carries the three values rounded to 5
\* decimals, where the same bounds hold with <= in place of <.
C18_BarSpans ==
    (HistCalled /\ hist.synthesized /\ hist.n >= 1) =>
        LET vol == IF hist.symbol = USDJPY THEN 10000 ELSE 100
            r == hist.raw
            b == hist.bar
        IN  /\ (r.high - r.open) % (vol \div 100) = 0
            /\ (r.open - r.low) % (vol \div 100) = 0
            /\ 0 <= r.high - r.open /\ r.high - r.open < vol
            /\ 0 <= r.open - r.low /\ r.open - r.low < vol
            /\ r.high - r.low < 2 * vol
            /\ 0 <= b.high - b.open /\ b.high - b.open <= vol
            /\ 0 <= b.open - b.low /\ b.open - b.low <= vol
            /\ b.high - b.low <= 2 * vol

\* C18 witness: USD/JPY with 1d/1h has returned 24 bars, the last of them with
\* a span far above anything the 0.0001 scale allows
C18_Witness ==
    /\ hist.pc = "done"
    /\ hist.synthesized
    /\ hist.symbol = USDJPY
    /\ hist.period = "1d"
    /\ hist.interval = "1h"
    /\ hist.n = 24
    /\ hist.raw.high - hist.raw.low > 200
    /\ hist.raw.high - hist.raw.low < 20000

====
